---------------------------- MODULE Spec2Model ----------------------------
(***************************************************************************)
(* A model of shader-compiler-llvm-7/src/backend.rs: the LLVM 7 backend of *)
(* the shader compiler.  The state is the process-wide ONCE guard, the     *)
(* locals of LLVM7Compiler::run, the LLVM7Context with its module list,    *)
(* and the engine objects (modules, functions, basic blocks, builders)     *)
(* the frontend creates through the Context.                               *)
(*                                                                         *)
(* Five specifications share the actions:                                  *)
(*   Spec         one thread calling LLVM7Compiler::run in a new process;  *)
(*   SpecContext  the calls a holder of an LLVM7Context can make on it and *)
(*                on the modules it hands out, until the Context is        *)
(*                dropped;                                                 *)
(*   SpecBuilder  the calls a holder of an LLVM7Context can make on a      *)
(*                function's basic blocks and on builders;                 *)
(*   SpecTypes    the calls a holder of an LLVM7Context can make on the    *)
(*                type builders it creates, for any configuration;         *)
(*   SpecInit     several threads calling initialize_native_target.        *)
(***************************************************************************)
EXTENDS Integers, Sequences, FiniteSets, TLC

\* ------------------------------------------------------------- bounds
NumThreads == 2
MaxRuns == 2
MaxModules == 2
MaxFunctions == 1
MaxBlocks == 2
MaxInstrs == 2
MaxBuilders == 1
MaxDiagLen == 1
MaxKeys == 1
MaxTypeBuilders == 2
MaxTypes == 1

Threads == 1..NumThreads
Main == 1

VARIABLES
    pc,          \* [Threads -> position of the thread in run]
    runs,        \* [Threads -> number of calls of run the thread has made]
    result,      \* [Threads -> outcome of the thread's current call of run]
    once,        \* state of the static ONCE of initialize_native_target
    initCalls,   \* the engine initialization calls made so far, in order
    context,     \* LLVM7Context.context: "none", "live" or "disposed"
    modules,     \* LLVM7Context.modules: the module handles the Context owns
    mods,        \* the modules the engine allocated: mods[m] for handle m
    functions,   \* functions[f]: the module LLVMGetGlobalParent reports for f
    blocks,      \* blocks[b]: the function and the instructions of block b
    builders,    \* builders[d]: the block builder d inserts at the end of (at,
                 \* 0 for none) and the type its handle was last returned as
    disposeLog,  \* the engine's dispose calls so far, in order
    lastCall,    \* the last call made on a builder or on a type builder
    lastVerify,  \* the last call of verify, and what it returned
    typeBuilders,\* typeBuilders[b]: LLVM7TypeBuilder.variable_vector_length_
                 \* multiplier of type builder b
    types,       \* the type-creating calls the engine received, in order
    config,      \* run's config: the LLVM7CompilerConfig it was called with
    userResult,  \* run's view of what user.run(&context) returned
    target,      \* run's target_triple, target and error: the host's triple, the
                 \* target the engine found for it and the engine's error text
    tm,          \* run's target_machine wrapper and the engine's machine
    jit,         \* run's orc_jit_stack: "none", "live" or "disposed"
    loaded,      \* the module handed to LLVMOrcAddEagerlyCompiledIR, 0 for none
    steps        \* the steps of run executed in this call, in order

initVars == <<once, initCalls>>
ctxVars == <<context, modules, mods, functions, blocks, builders, disposeLog,
             lastCall, lastVerify, typeBuilders, types>>
drvVars == <<config, userResult, target, tm, jit, loaded, steps>>
vars == <<pc, runs, result, once, initCalls, context, modules, mods, functions,
          blocks, builders, disposeLog, lastCall, lastVerify, typeBuilders,
          types, config, userResult, target, tm, jit, loaded, steps>>

NoResult == [kind |-> "none"]
NoCall == [op |-> "none"]
NoVerify == [op |-> "none", tick |-> 0]

\* Unsigned integers are kept at their width, as their bytes from the
\* least significant up: 4 bytes for u32 and c_uint, 8 for usize.
Byte == 256
U32Bytes == 4
UsizeBytes == 8

\* The u32 of a number below 2^31.
u32(n) == [k \in 1..U32Bytes |-> (n \div Byte^(k - 1)) % Byte]
U32_MAX == [k \in 1..U32Bytes |-> Byte - 1]

\* v as u32 and v as c_uint: the low bytes; v as usize of a u32: zero
\* extended.
as_u32(v) == SubSeq(v, 1, U32Bytes)
as_usize(v) == [k \in 1..UsizeBytes |-> IF k <= Len(v) THEN v[k] ELSE 0]

IsZero(v) == \A k \in DOMAIN v : v[k] = 0

\* The product of two u32 values, in full: column sums and carries.
ByteAt(v, k) == IF k \in DOMAIN v THEN v[k] ELSE 0
Column(a, b, k) ==
    ByteAt(a, 1) * ByteAt(b, k) + ByteAt(a, 2) * ByteAt(b, k - 1)
    + ByteAt(a, 3) * ByteAt(b, k - 2) + ByteAt(a, 4) * ByteAt(b, k - 3)

RECURSIVE Carry(_, _, _)
Carry(a, b, k) ==
    IF k = 0 THEN 0 ELSE (Column(a, b, k) + Carry(a, b, k - 1)) \div Byte

Product(a, b) ==
    [k \in 1..UsizeBytes |-> (Column(a, b, k) + Carry(a, b, k - 1)) % Byte]

\* backend::OptimizationMode.
OptimizationModes == {"NoOptimizations", "Normal"}

\* From<backend::CompilerIndependentConfig> for LLVM7CompilerConfig, which
\* Default goes through as well.
LLVM7CompilerConfig_from(optimization_mode) ==
    [variable_vector_length_multiplier |-> u32(1),
     optimization_mode |-> optimization_mode]

\* The configs made from a CompilerIndependentConfig.
Configs == {LLVM7CompilerConfig_from(mode) : mode \in OptimizationModes}
NoConfig == [variable_vector_length_multiplier |-> u32(0),
             optimization_mode |-> "none"]

Keys == 1..MaxKeys
UserErrors == {"E1", "E2"}
NoUserResult == [kind |-> "none", module |-> 0, callable_functions |-> <<>>,
                 error |-> "none"]
NoTarget == [triple |-> "none", target |-> "none", error |-> <<>>]
NoTargetMachine == [wrapper |-> "none", machine |-> "none", level |-> "none"]
Panic(at) == [kind |-> "panic", at |-> at]
Abort(at) == [kind |-> "abort", at |-> at]

\* ------------------------------------------------- initialize_native_target

\* LLVM7Compiler::run is entered: its first statement calls
\* initialize_native_target.
run_enter(t) ==
    /\ pc[t] \in {"idle", "done"}
    /\ runs[t] < MaxRuns
    /\ pc' = [pc EXCEPT ![t] = "call_once"]
    /\ runs' = [runs EXCEPT ![t] = @ + 1]
    /\ result' = [result EXCEPT ![t] = NoResult]
    /\ UNCHANGED <<once, initCalls, ctxVars, drvVars>>

\* The first call of run in the process, on the thread whose locals the
\* model keeps: it is called with some config.
run_enter_main ==
    /\ pc[Main] = "idle"
    /\ runs[Main] = 0
    /\ pc' = [pc EXCEPT ![Main] = "call_once"]
    /\ runs' = [runs EXCEPT ![Main] = 1]
    /\ config' \in Configs
    /\ UNCHANGED <<result, initVars, ctxVars, userResult, tm, jit, loaded,
                   steps,
                   target>>

\* Once::call_once, the guard already complete: the closure is skipped.
call_once_complete(t) ==
    /\ pc[t] = "call_once"
    /\ once = "COMPLETE"
    /\ pc' = [pc EXCEPT ![t] = "initialized"]
    /\ UNCHANGED <<runs, result, once, initCalls, ctxVars, drvVars>>

\* Once::call_once, first caller: it claims the guard and runs the closure.
call_once_begin(t) ==
    /\ pc[t] = "call_once"
    /\ once = "INCOMPLETE"
    /\ once' = "RUNNING"
    /\ pc' = [pc EXCEPT ![t] = "init_target"]
    /\ UNCHANGED <<runs, result, initCalls, ctxVars, drvVars>>

\* Once::call_once while another thread runs the closure: the caller blocks.
call_once_mutant_wait(t) ==
    /\ pc[t] = "call_once"
    /\ once = "RUNNING"
    /\ pc' = [pc EXCEPT ![t] = "initialized"]
    /\ UNCHANGED <<runs, result, once, initCalls, ctxVars, drvVars>>

call_once_wait(t) ==
    /\ pc[t] = "call_once"
    /\ once = "RUNNING"
    /\ pc' = [pc EXCEPT ![t] = "waiting"]
    /\ UNCHANGED <<runs, result, once, initCalls, ctxVars, drvVars>>

\* A blocked caller is woken when the closure has ended, and looks again.
call_once_wake(t) ==
    /\ pc[t] = "waiting"
    /\ once # "RUNNING"
    /\ pc' = [pc EXCEPT ![t] = "call_once"]
    /\ UNCHANGED <<runs, result, once, initCalls, ctxVars, drvVars>>

\* Once::call_once on a guard whose closure panicked: the call panics.
call_once_poisoned(t) ==
    /\ pc[t] = "call_once"
    /\ once = "POISONED"
    /\ pc' = [pc EXCEPT ![t] = "done"]
    /\ result' = [result EXCEPT ![t] = Panic("call_once")]
    /\ UNCHANGED <<runs, once, initCalls, ctxVars, drvVars>>

\* The state call_once leaves the guard in when its closure panics: the guard
\* is poisoned as the panic unwinds out of call_once.
closure_mutant_panicked == "INCOMPLETE"

closure_panicked == "POISONED"

\* The closure's first statement: assert_eq!(LLVM_InitializeNativeTarget(), 0).
\* The engine returns nonzero when it was built without a native target.
LLVM_InitializeNativeTarget(t) ==
    /\ pc[t] = "init_target"
    /\ initCalls' = Append(initCalls, "NativeTarget")
    /\ \E rc \in {0, 1} :
         IF rc = 0
         THEN /\ pc' = [pc EXCEPT ![t] = "init_asm"]
              /\ UNCHANGED <<result, once>>
         ELSE /\ once' = closure_panicked
              /\ pc' = [pc EXCEPT ![t] = "done"]
              /\ result' = [result EXCEPT ![t] = Panic("LLVM_InitializeNativeTarget")]
    /\ UNCHANGED <<runs, ctxVars, drvVars>>

\* The closure's second statement:
\* assert_eq!(LLVM_InitializeNativeAsmParser(), 0); then the guard completes.
LLVM_InitializeNativeAsmParser(t) ==
    /\ pc[t] = "init_asm"
    /\ initCalls' = Append(initCalls, "NativeAsmParser")
    /\ \E rc \in {0, 1} :
         IF rc = 0
         THEN /\ once' = "COMPLETE"
              /\ pc' = [pc EXCEPT ![t] = "initialized"]
              /\ UNCHANGED result
         ELSE /\ once' = closure_panicked
              /\ pc' = [pc EXCEPT ![t] = "done"]
              /\ result' = [result EXCEPT ![t] = Panic("LLVM_InitializeNativeAsmParser")]
    /\ UNCHANGED <<runs, ctxVars, drvVars>>

\* The rest of run after initialize_native_target returned: it never touches
\* ONCE again.
run_rest(t) ==
    /\ pc[t] = "initialized"
    /\ pc' = [pc EXCEPT ![t] = "done"]
    /\ UNCHANGED <<runs, result, once, initCalls, ctxVars, drvVars>>


\* ------------------------------------------------------------ strings

\* The names the frontend passes: byte strings, one with an interior 0 byte.
Names == { <<102>>, <<102, 0, 103>> }

\* CString::new(name): an error when the bytes hold a 0, else the bytes with
\* the terminator appended.
CString_new(name) ==
    IF \E i \in 1..Len(name) : name[i] = 0
    THEN [ok |-> FALSE]
    ELSE [ok |-> TRUE, bytes |-> Append(name, 0)]

\* The bytes of an engine message: ASCII, or a byte that is not UTF-8.
DiagBytes == {65, 255}

RECURSIVE SeqsUpTo(_, _)
SeqsUpTo(S, n) ==
    IF n = 0 THEN { <<>> }
    ELSE LET shorter == SeqsUpTo(S, n - 1)
         IN  shorter \cup { Append(q, x) : q \in shorter, x \in S }

\* CStr::to_string_lossy: a byte that is not UTF-8 becomes U+FFFD.
to_string_lossy(bytes) ==
    [i \in 1..Len(bytes) |-> IF bytes[i] < 128 THEN bytes[i] ELSE 65533]

to_bool(v) == v # 0

\* ------------------------------------------------------- LLVM7Context

\* The thread is inside user.run, or otherwise holds the live Context.
HoldsContext == pc[Main] = "user" /\ context = "live"

\* A panic while the Context is alive unwinds to the Context's owner, which
\* drops it.
Unwind(at) ==
    /\ pc' = [pc EXCEPT ![Main] = "drop_context"]
    /\ result' = [result EXCEPT ![Main] = Panic(at)]

Disposal(obj, id, by) == [obj |-> obj, id |-> id, by |-> by]

\* What create_module leaves in LLVM7Context.modules: modules.push(module);
\* self.modules.set(modules).
create_module_mutant_push(taken, module) == taken

create_module_push(taken, module) == Append(taken, module)

\* LLVM7Context::create_module.  reserve(1) can fail to allocate: the process
\* aborts there, with the list taken out of the cell.
create_module(name, room) ==
    /\ HoldsContext
    /\ Len(mods) < MaxModules
    /\ IF ~CString_new(name).ok
       THEN /\ Unwind("create_module")
            /\ UNCHANGED <<modules, mods>>
       ELSE LET taken == modules
                module == Len(mods) + 1
            IN  IF ~room
                THEN /\ modules' = <<>>
                     /\ pc' = [pc EXCEPT ![Main] = "aborted"]
                     /\ result' = [result EXCEPT ![Main] = Abort("reserve")]
                     /\ UNCHANGED mods
                ELSE /\ mods' = Append(mods, [ts |-> "Module", verdict |-> "none"])
                     /\ modules' = create_module_push(taken, module)
                     /\ UNCHANGED <<pc, result>>
    /\ UNCHANGED <<runs, initVars, context, functions, blocks, builders,
                   disposeLog, lastCall, lastVerify, drvVars,
                   typeBuilders, types>>

\* LLVM7Context::create_builder: a builder with no insertion point, handed
\* out as a DetachedBuilder.
create_builder ==
    /\ HoldsContext
    /\ Len(builders) < MaxBuilders
    /\ builders' = Append(builders, [at |-> 0, ts |-> "Detached"])
    /\ UNCHANGED <<pc, runs, result, initVars, context, modules, mods,
                   functions, blocks, disposeLog, lastCall, lastVerify, drvVars,
                   typeBuilders, types>>

\* What Drop for LLVM7Context asks of the engine: LLVMDisposeModule for each
\* module drained from the list, then LLVMContextDispose.
drop_mutant_LLVM7Context(ms) ==
    <<Disposal("Context", 0, "Context")>>
    \o [i \in 1..Len(ms) |-> Disposal("Module", ms[i], "Context")]

drop_LLVM7Context(ms) ==
    [i \in 1..Len(ms) |-> Disposal("Module", ms[i], "Context")]
    \o <<Disposal("Context", 0, "Context")>>

\* Drop for LLVM7Context.
DropContext ==
    /\ pc[Main] = "drop_context"
    /\ context = "live"
    /\ disposeLog' = disposeLog \o drop_LLVM7Context(modules)
    /\ modules' = <<>>
    /\ context' = "disposed"
    /\ pc' = [pc EXCEPT ![Main] = "done"]
    /\ UNCHANGED <<runs, result, initVars, mods, functions, blocks, builders,
                   lastCall, lastVerify, drvVars,
                   typeBuilders, types>>

\* -------------------------------------------------------- LLVM7Module

\* LLVMAddFunction(self.module, name.as_ptr(), ty.0): the module the engine
\* links the new function into, which LLVMGetGlobalParent reports for it.
LLVMAddFunction_mutant(module) == 1

LLVMAddFunction(module) == module

\* LLVM7Module::add_function: LLVMAddFunction(self.module, name, ty).
add_function(m, name) ==
    /\ HoldsContext
    /\ m \in 1..Len(mods)
    /\ Len(functions) < MaxFunctions
    /\ IF ~CString_new(name).ok
       THEN /\ Unwind("add_function")
            /\ UNCHANGED functions
       ELSE /\ functions' = Append(functions, LLVMAddFunction(m))
            /\ UNCHANGED <<pc, result>>
    /\ UNCHANGED <<runs, initVars, context, modules, mods, blocks, builders,
                   disposeLog, lastCall, lastVerify, drvVars,
                   typeBuilders, types>>

\* LLVM7Function::append_new_basic_block: a new, empty block at the end of f.
append_new_basic_block(f, name) ==
    /\ HoldsContext
    /\ f \in 1..Len(functions)
    /\ Len(blocks) < MaxBlocks
    /\ IF ~CString_new(name).ok
       THEN /\ Unwind("append_new_basic_block")
            /\ UNCHANGED blocks
       ELSE /\ blocks' = Append(blocks, [fn |-> f, instrs |-> <<>>])
            /\ UNCHANGED <<pc, result>>
    /\ UNCHANGED <<runs, initVars, context, modules, mods, functions, builders,
                   disposeLog, lastCall, lastVerify, drvVars,
                   typeBuilders, types>>

\* LLVMVerifyModule's status for a module: 0, or nonzero when the engine's
\* checker finds the module broken.  The checker is the engine's own.
LLVMVerifyModule == {0, 1}

\* The message the engine writes with status rc: empty when nothing is wrong.
VerifyMessages(rc) ==
    IF rc = 0 THEN { <<>> } ELSE SeqsUpTo(DiagBytes, MaxDiagLen) \ { <<>> }

\* What LLVM7Module::verify returns for module m, given the engine's status
\* and message.
verify_mutant_result(m, rc, message) == [kind |-> "Ok", module |-> m]

verify_mutant_message(m, rc, message) ==
    IF to_bool(rc) # FALSE
    THEN [kind |-> "Err", module |-> m, message |-> <<>>]
    ELSE [kind |-> "Ok", module |-> m]

verify_result(m, rc, message) ==
    IF to_bool(rc) # FALSE
    THEN [kind |-> "Err", module |-> m, message |-> to_string_lossy(message)]
    ELSE [kind |-> "Ok", module |-> m]

\* LLVM7Module::verify.  The handle returned in Ok is a VerifiedModule; the
\* one inside the VerificationFailure is still a Module.
verify(m) ==
    /\ HoldsContext
    /\ m \in 1..Len(mods)
    /\ \E rc \in LLVMVerifyModule : \E message \in VerifyMessages(rc) :
         LET ret == verify_result(m, rc, message)
         IN  /\ lastVerify' = [op |-> "verify", module |-> m, rc |-> rc,
                               ret |-> ret, tick |-> 1 - lastVerify.tick]
             /\ mods' = [mods EXCEPT ![m] =
                           [ts |-> IF ret.kind = "Ok" THEN "VerifiedModule"
                                   ELSE "Module",
                            verdict |-> IF to_bool(rc) THEN "broken"
                                        ELSE "valid"]]
    /\ UNCHANGED <<pc, runs, result, initVars, context, modules, functions,
                   blocks, builders, disposeLog, lastCall, drvVars,
                   typeBuilders, types>>

\* LLVM7Module::to_verified_module_unchecked: the same handle, as a
\* VerifiedModule, with the engine's checker not run.
to_verified_module_unchecked(m) ==
    /\ HoldsContext
    /\ m \in 1..Len(mods)
    /\ mods' = [mods EXCEPT ![m] = [ts |-> "VerifiedModule",
                                    verdict |-> "unchecked"]]
    /\ UNCHANGED <<pc, runs, result, initVars, context, modules, functions,
                   blocks, builders, disposeLog, lastCall, lastVerify, drvVars,
                   typeBuilders, types>>

\* VerifiedModule::into_module: the same handle, as a Module again.
into_module(m) ==
    /\ HoldsContext
    /\ m \in 1..Len(mods)
    /\ mods[m].ts = "VerifiedModule"
    /\ mods' = [mods EXCEPT ![m] = [ts |-> "Module", verdict |-> "none"]]
    /\ UNCHANGED <<pc, runs, result, initVars, context, modules, functions,
                   blocks, builders, disposeLog, lastCall, lastVerify, drvVars,
                   typeBuilders, types>>

\* ---------------------------------------------------- LLVM7TypeBuilder

\* The u32 values a caller sets as multiplier or passes as a vector length.
Multipliers == {u32(0), u32(1), u32(2), u32(65536)}
Lengths == {u32(0), u32(1), u32(4), u32(65536), u32(65537), U32_MAX}

\* backend::types::VectorLength.
VectorLengths == [kind : {"Fixed", "Variable"}, n : Lengths]

\* The usize values a caller passes as a count, or as the length of a slice
\* of members or arguments: small ones, 2^32 - 1, 2^32, 2^32 + 1, 2^64 - 1.
Counts == {as_usize(u32(0)), as_usize(u32(1)), as_usize(u32(2)),
           as_usize(U32_MAX), <<0, 0, 0, 0, 1, 0, 0, 0>>,
           <<1, 0, 0, 0, 1, 0, 0, 0>>,
           <<255, 255, 255, 255, 255, 255, 255, 255>>}

\* Any LLVM7CompilerConfig: its fields are public.
AnyConfigs == [variable_vector_length_multiplier : Multipliers,
               optimization_mode : OptimizationModes]

\* LLVM7Context::create_type_builder.
create_type_builder ==
    /\ HoldsContext
    /\ Len(typeBuilders) < MaxTypeBuilders
    /\ typeBuilders' = Append(typeBuilders,
                              config.variable_vector_length_multiplier)
    /\ UNCHANGED <<pc, runs, result, initVars, context, modules, mods,
                   functions, blocks, builders, disposeLog, lastCall,
                   lastVerify, types, drvVars>>

\* u32::checked_mul: None when the product does not fit a u32.
checked_mutant_mul(a, b) == [some |-> TRUE, value |-> as_u32(Product(a, b))]

checked_mul(a, b) ==
    IF as_usize(as_u32(Product(a, b))) = Product(a, b)
    THEN [some |-> TRUE, value |-> as_u32(Product(a, b))]
    ELSE [some |-> FALSE, value |-> u32(0)]

\* A call of a type builder's operation that panics, or that has the engine
\* create the type made.
TypeCall(call, panics, made) ==
    /\ HoldsContext
    /\ Len(types) < MaxTypes
    /\ lastCall' = call @@ [n |-> Len(types)]
    /\ IF panics
       THEN /\ Unwind(call.op)
            /\ UNCHANGED types
       ELSE /\ types' = Append(types, made)
            /\ UNCHANGED <<pc, result>>
    /\ UNCHANGED <<runs, initVars, context, modules, mods, functions, blocks,
                   builders, disposeLog, lastVerify, typeBuilders, drvVars>>

\* LLVM7TypeBuilder::build_vector.
build_vector(b, length) ==
    /\ b \in 1..Len(typeBuilders)
    /\ LET product == IF length.kind = "Fixed"
                      THEN [some |-> TRUE, value |-> length.n]
                      ELSE checked_mul(length.n, typeBuilders[b])
       IN  TypeCall([op |-> "build_vector", builder |-> b, arg |-> length],
                    ~product.some \/ IsZero(product.value),
                    [op |-> "LLVMVectorType", count |-> product.value])

\* The assertion of build_array, build_struct and build_function:
\* assert_eq!(count as u32 as usize, count).
count_mutant_fits(count) == TRUE

count_fits(count) == as_usize(as_u32(count)) = count

\* LLVM7TypeBuilder::build_array.
build_array(b, count) ==
    /\ b \in 1..Len(typeBuilders)
    /\ TypeCall([op |-> "build_array", builder |-> b, arg |-> count],
                ~count_fits(count),
                [op |-> "LLVMArrayType", count |-> as_u32(count)])

\* LLVM7TypeBuilder::build_struct, for a slice of members.len() members.
build_struct(b, members_len) ==
    /\ b \in 1..Len(typeBuilders)
    /\ TypeCall([op |-> "build_struct", builder |-> b, arg |-> members_len],
                ~count_fits(members_len),
                [op |-> "LLVMStructTypeInContext",
                 count |-> as_u32(members_len)])

\* LLVM7TypeBuilder::build_function, for a slice of arguments.len()
\* arguments and a return type that is Some or None.
build_function(b, arguments_len, return_type) ==
    /\ b \in 1..Len(typeBuilders)
    /\ TypeCall([op |-> "build_function", builder |-> b,
                 arg |-> arguments_len, return_type |-> return_type],
                ~count_fits(arguments_len),
                [op |-> "LLVMFunctionType", count |-> as_u32(arguments_len),
                 return_type |-> IF return_type = "None" THEN "void"
                                 ELSE "given"])

\* ------------------------------------------------------- LLVM7Builder

\* AttachedBuilder::current_basic_block: LLVMGetInsertBlock(self.0).
current_basic_block(d) == builders[d].at

\* The instruction LLVMBuildRet / LLVMBuildRetVoid creates.
ReturnInstr(value) == IF value = "None" THEN "ret void" ELSE "ret value"

\* The instructions linked into blocks so far.
InstrCount ==
    Cardinality(UNION { {<<b, i>> : i \in 1..Len(blocks[b].instrs)} :
                          b \in 1..Len(blocks) })

\* LLVMBuildRet / LLVMBuildRetVoid on a builder inserting into block at: the
\* engine links the new instruction at the end of that block, and into no
\* block when the builder has no insertion point.
LLVMBuildRet(bs, at, value) ==
    IF at = 0 THEN bs
    ELSE [bs EXCEPT ![at].instrs = Append(@, ReturnInstr(value))]

\* What attach leaves as the builder's insertion point:
\* LLVMPositionBuilderAtEnd(self.0, basic_block.0).
attach_mutant_position(before, basic_block) == before

attach_position(before, basic_block) == basic_block

\* DetachedBuilder::attach: the builder is returned as an AttachedBuilder.
attach(d, basic_block) ==
    /\ HoldsContext
    /\ d \in 1..Len(builders)
    /\ basic_block \in 1..Len(blocks)
    /\ builders' = [builders EXCEPT ![d] =
                       [at |-> attach_position(@.at, basic_block),
                        ts |-> "Attached"]]
    /\ lastCall' = [op |-> "attach", builder |-> d, before |-> builders[d],
                    arg |-> basic_block]
    /\ UNCHANGED <<pc, runs, result, initVars, context, modules, mods,
                   functions, blocks, disposeLog, lastVerify, drvVars,
                   typeBuilders, types>>

\* What build_return leaves as the builder's insertion point:
\* LLVMClearInsertionPosition(self.0).
build_return_mutant_position(before) == before

build_return_position(before) == 0

\* AttachedBuilder::build_return: the builder is returned as a
\* DetachedBuilder.
build_return(d, value) ==
    /\ HoldsContext
    /\ d \in 1..Len(builders)
    /\ builders[d].at # 0 => InstrCount < MaxInstrs
    /\ blocks' = LLVMBuildRet(blocks, builders[d].at, value)
    /\ builders' = [builders EXCEPT ![d] =
                       [at |-> build_return_position(@.at),
                        ts |-> "Detached"]]
    /\ lastCall' = [op |-> "build_return", builder |-> d,
                    before |-> builders[d], arg |-> value]
    /\ UNCHANGED <<pc, runs, result, initVars, context, modules, mods,
                   functions, disposeLog, lastVerify, drvVars,
                   typeBuilders, types>>

\* The holder of the Context lets it go out of scope.
context_scope_ends ==
    /\ HoldsContext
    /\ pc' = [pc EXCEPT ![Main] = "drop_context"]
    /\ UNCHANGED <<runs, result, initVars, ctxVars, drvVars>>


\* ------------------------------------------------------ LLVM7Compiler::run

Step(name) == steps' = Append(steps, name)

\* let context = LLVM7Context { context: LLVMContextCreate(), modules:
\* Vec::new().into(), config: config.clone() }.
context_create ==
    /\ pc[Main] = "initialized"
    /\ context' = "live"
    /\ modules' = <<>>
    /\ Step("LLVMContextCreate")
    /\ pc' = [pc EXCEPT ![Main] = "user"]
    /\ UNCHANGED <<runs, result, initVars, mods, functions, blocks, builders,
                   disposeLog, lastCall, lastVerify, config, userResult, tm,
                   jit, loaded,
                   target,
                   typeBuilders, types>>

\* The callable_functions a frontend can return: a map from some of the keys
\* to functions it created.
CallableMaps ==
    UNION { [K -> 1..Len(functions)] : K \in SUBSET Keys }

\* backend::CompileInputs { module, callable_functions }: its module field is
\* a VerifiedModule.
CompileInputs(m, cf) ==
    /\ m \in 1..Len(mods)
    /\ mods[m].ts = "VerifiedModule"
    /\ cf \in CallableMaps

\* user.run(&context) returns Ok(CompileInputs { module, callable_functions }):
\* what the frontend held besides is gone.
user_returns_ok(m, cf) ==
    /\ HoldsContext
    /\ CompileInputs(m, cf)
    /\ userResult' = [kind |-> "Ok", module |-> m, callable_functions |-> cf,
                      error |-> "none"]
    /\ Step("user.run")
    /\ lastVerify' = NoVerify
    /\ pc' = [pc EXCEPT ![Main] = "user_returned"]
    /\ UNCHANGED <<runs, result, initVars, context, modules, mods, functions,
                   blocks, builders, disposeLog, lastCall, config, tm, jit,
                   loaded,
                   target,
                   typeBuilders, types>>

\* user.run(&context) returns Err(error).
user_returns_err(error) ==
    /\ HoldsContext
    /\ userResult' = [kind |-> "Err", module |-> 0,
                      callable_functions |-> <<>>, error |-> error]
    /\ Step("user.run")
    /\ lastVerify' = NoVerify
    /\ pc' = [pc EXCEPT ![Main] = "user_returned"]
    /\ UNCHANGED <<runs, result, initVars, context, modules, mods, functions,
                   blocks, builders, disposeLog, lastCall, config, tm, jit,
                   loaded,
                   target,
                   typeBuilders, types>>

\* Where the ? of user.run(&context)? sends run.
try_mutant_next(r) == "check_owner"

try_next(r) == IF r.kind = "Err" THEN "drop_context" ELSE "check_owner"

\* What the ? of user.run(&context)? makes run return on Err(error):
\* Err(From::from(error)), with U::Error converted to itself.
try_result(r) ==
    IF r.kind = "Err" THEN [kind |-> "Err", error |-> r.error] ELSE NoResult

\* The ? operator applied to what user.run returned.
run_try ==
    /\ pc[Main] = "user_returned"
    /\ pc' = [pc EXCEPT ![Main] = try_next(userResult)]
    /\ result' = [result EXCEPT ![Main] = try_result(userResult)]
    /\ UNCHANGED <<runs, initVars, ctxVars, drvVars>>

\* The loop over callable_functions.values(): each function's
\* LLVMGetGlobalParent must be module.module.
OwnersMatch_mutant(r) == TRUE

OwnersMatch(r) ==
    \A k \in DOMAIN r.callable_functions :
        functions[r.callable_functions[k]] = r.module

check_owner ==
    /\ pc[Main] = "check_owner"
    /\ Step("check_owner")
    /\ IF OwnersMatch(userResult)
       THEN /\ pc' = [pc EXCEPT ![Main] = "target"]
            /\ UNCHANGED result
       ELSE Unwind("assert_eq LLVMGetGlobalParent")
    /\ UNCHANGED <<runs, initVars, ctxVars, config, userResult, tm, jit,
                   loaded,
                   target>>

\* U::create_error(message).
create_error(message) == [kind |-> "Err", error |-> [created |-> message]]

\* LLVMGetDefaultTargetTriple(): the triple of the host the process runs on.
Triples == {"x86_64-unknown-linux-gnu", "aarch64-unknown-linux-gnu"}

\* The error text LLVMGetTargetFromTriple writes when it finds no target.
TargetErrors == SeqsUpTo(DiagBytes, MaxDiagLen) \ { <<>> }

\* What run returns when LLVMGetTargetFromTriple has failed with error:
\* Err(U::create_error(error.to_string_lossy().into())).
get_target_mutant_result(success, error) ==
    IF ~success THEN create_error(<<>>) ELSE NoResult

get_target_result(success, error) ==
    IF ~success THEN create_error(to_string_lossy(error)) ELSE NoResult

\* LLVMGetDefaultTargetTriple and LLVMGetTargetFromTriple: the engine finds
\* a target for the host's triple or reports an error text.
get_target ==
    /\ pc[Main] = "target"
    /\ Step("LLVMGetTargetFromTriple")
    /\ \E target_triple \in Triples :
         \/ /\ target' = [triple |-> target_triple, target |-> "found",
                           error |-> <<>>]
            /\ pc' = [pc EXCEPT ![Main] = "has_jit"]
            /\ result' = [result EXCEPT ![Main] =
                            get_target_result(TRUE, <<>>)]
         \/ \E error \in TargetErrors :
              /\ target' = [triple |-> target_triple, target |-> "null",
                            error |-> error]
              /\ pc' = [pc EXCEPT ![Main] = "drop_context"]
              /\ result' = [result EXCEPT ![Main] =
                              get_target_result(FALSE, error)]
    /\ UNCHANGED <<runs, initVars, ctxVars, config, userResult, tm, jit,
                   loaded>>

\* format!("target {:?} doesn't support JIT", target_triple).
format_no_jit(target_triple) ==
    <<"target ", target_triple, " doesn't support JIT">>

\* What run returns when LLVMTargetHasJIT(target) is has.
has_jit_result(has, target_triple) ==
    IF ~has THEN create_error(format_no_jit(target_triple)) ELSE NoResult

\* Where run goes on when LLVMTargetHasJIT(target) is has.
has_jit_next(has) == IF ~has THEN "drop_context" ELSE "target_machine"

\* LLVMTargetHasJIT(target).
target_has_jit ==
    /\ pc[Main] = "has_jit"
    /\ Step("LLVMTargetHasJIT")
    /\ \E has \in BOOLEAN :
         /\ pc' = [pc EXCEPT ![Main] = has_jit_next(has)]
         /\ result' = [result EXCEPT ![Main] =
                         has_jit_result(has, target.triple)]
    /\ UNCHANGED <<runs, initVars, ctxVars, config, userResult, target, tm,
                   jit, loaded>>

\* The LLVMCodeGenOptLevel run passes for config.optimization_mode.
CodeGenOptLevel_mutant(mode) == "LLVMCodeGenLevelDefault"

CodeGenOptLevel(mode) ==
    IF mode = "NoOptimizations" THEN "LLVMCodeGenLevelNone"
    ELSE "LLVMCodeGenLevelDefault"

\* LLVM7TargetMachine(LLVMCreateTargetMachine(...)), then
\* assert!(!target_machine.0.is_null()).
create_target_machine ==
    /\ pc[Main] = "target_machine"
    /\ Step("LLVMCreateTargetMachine")
    /\ \E created \in BOOLEAN :
         IF created
         THEN /\ tm' = [wrapper |-> "machine", machine |-> "live",
                        level |-> CodeGenOptLevel(config.optimization_mode)]
              /\ pc' = [pc EXCEPT ![Main] = "jit_stack"]
              /\ UNCHANGED result
         ELSE /\ tm' = [wrapper |-> "null", machine |-> "none",
                        level |-> "none"]
              /\ pc' = [pc EXCEPT ![Main] = "drop_target_machine"]
              /\ result' = [result EXCEPT ![Main] =
                              Panic("assert target_machine")]
    /\ UNCHANGED <<runs, initVars, ctxVars, config, userResult, jit, loaded,
                   target>>

\* Drop for LLVM7TargetMachine: LLVMDisposeTargetMachine(self.0), which the
\* engine ignores for a null handle.
drop_LLVM7TargetMachine(t) ==
    [log |-> <<Disposal("TargetMachine", t.wrapper, "LLVM7TargetMachine")>>,
     tm |-> [t EXCEPT !.wrapper = "none",
                      !.machine = IF t.wrapper = "machine" THEN "disposed"
                                  ELSE @]]

\* The wrapper is dropped while the panic of the assertion unwinds.
drop_target_machine ==
    /\ pc[Main] = "drop_target_machine"
    /\ disposeLog' = disposeLog \o drop_LLVM7TargetMachine(tm).log
    /\ tm' = drop_LLVM7TargetMachine(tm).tm
    /\ pc' = [pc EXCEPT ![Main] = "drop_context"]
    /\ UNCHANGED <<runs, result, initVars, context, modules, mods, functions,
                   blocks, builders, lastCall, lastVerify, config, userResult,
                   jit, loaded, steps,
                   target,
                   typeBuilders, types>>

\* LLVM7TargetMachine::take: the handle is returned and the wrapper, holding
\* null in its place, is dropped as take returns.
take_mutant(t) == [retval |-> t.wrapper, self |-> t]

take(t) == [retval |-> t.wrapper, self |-> [t EXCEPT !.wrapper = "null"]]

\* LLVM7OrcJITStack(LLVMOrcCreateInstance(target_machine.take())): the JIT
\* stack takes the machine it is given as its own.
create_jit_stack ==
    /\ pc[Main] = "jit_stack"
    /\ Step("LLVMOrcCreateInstance")
    /\ LET taken == take(tm)
           dropped == drop_LLVM7TargetMachine(taken.self)
       IN  /\ disposeLog' = disposeLog \o dropped.log
           /\ tm' = dropped.tm
    /\ jit' = "live"
    /\ pc' = [pc EXCEPT ![Main] = "load"]
    /\ UNCHANGED <<runs, result, initVars, context, modules, mods, functions,
                   blocks, builders, lastCall, lastVerify, config, userResult,
                   loaded,
                   target,
                   typeBuilders, types>>

\* LLVMOrcAddEagerlyCompiledIR(orc_jit_stack.0, &mut orc_module_handle,
\* module.module, Some(symbol_resolver_fn), null_mut()): the engine takes the
\* module as its own, compiles it and releases it.  Its status is not read.
\* When the module refers to a symbol it does not define, the engine calls
\* symbol_resolver_fn, which panics inside an extern "C" function: the
\* process aborts, or the panic unwinds through the engine's frames into run.
add_eagerly_compiled_ir ==
    /\ pc[Main] = "load"
    /\ loaded' = userResult.module
    /\ disposeLog' = Append(disposeLog,
                            Disposal("Module", userResult.module, "JIT"))
    /\ \E external \in BOOLEAN :
         IF ~external
         THEN /\ Step("LLVMOrcAddEagerlyCompiledIR")
              /\ pc' = [pc EXCEPT ![Main] = "unimplemented"]
              /\ UNCHANGED result
         ELSE \E outcome \in {"aborted", "drop_jit_stack"} :
                /\ steps' = steps \o <<"LLVMOrcAddEagerlyCompiledIR",
                                       "symbol_resolver_fn">>
                /\ pc' = [pc EXCEPT ![Main] = outcome]
                /\ result' = [result EXCEPT ![Main] =
                                IF outcome = "aborted"
                                THEN Abort("symbol_resolver_fn")
                                ELSE Panic("symbol_resolver_fn")]
    /\ UNCHANGED <<runs, initVars, context, modules, mods, functions, blocks,
                   builders, lastCall, lastVerify, config, userResult, tm, jit,
                   target,
                   typeBuilders, types>>

\* unimplemented!(): the last statement of run.
unimplemented ==
    /\ pc[Main] = "unimplemented"
    /\ result' = [result EXCEPT ![Main] = Panic("unimplemented")]
    /\ pc' = [pc EXCEPT ![Main] = "drop_jit_stack"]
    /\ UNCHANGED <<runs, initVars, ctxVars, drvVars>>

\* LLVMOrcDisposeInstance: the engine destroys the stack and, with it, the
\* target machine the stack owns.
LLVMOrcDisposeInstance(t) ==
    [log |-> <<Disposal("JITStack", 0, "LLVM7OrcJITStack"),
               Disposal("TargetMachine", "machine", "JIT")>>,
     tm |-> [t EXCEPT !.machine = "disposed"]]

\* Drop for LLVM7OrcJITStack, run while a panic unwinds: LLVMOrcDisposeInstance
\* and, on LLVMOrcErrGeneric, a panic inside the unwinding one, which aborts.
drop_jit_stack ==
    /\ pc[Main] = "drop_jit_stack"
    /\ jit' = "disposed"
    /\ disposeLog' = disposeLog \o LLVMOrcDisposeInstance(tm).log
    /\ tm' = LLVMOrcDisposeInstance(tm).tm
    /\ \E code \in {"LLVMOrcErrSuccess", "LLVMOrcErrGeneric"} :
         IF code = "LLVMOrcErrSuccess"
         THEN /\ pc' = [pc EXCEPT ![Main] = "drop_context"]
              /\ UNCHANGED result
         ELSE /\ pc' = [pc EXCEPT ![Main] = "aborted"]
              /\ result' = [result EXCEPT ![Main] =
                              Abort("LLVMOrcDisposeInstance")]
    /\ UNCHANGED <<runs, initVars, context, modules, mods, functions, blocks,
                   builders, lastCall, lastVerify, config, userResult,
                   loaded, steps, target, typeBuilders, types>>

Init ==
    /\ pc = [t \in Threads |-> "idle"]
    /\ runs = [t \in Threads |-> 0]
    /\ result = [t \in Threads |-> NoResult]
    /\ once = "INCOMPLETE"
    /\ initCalls = <<>>
    /\ context = "none"
    /\ modules = <<>>
    /\ mods = <<>>
    /\ functions = <<>>
    /\ blocks = <<>>
    /\ builders = <<>>
    /\ disposeLog = <<>>
    /\ lastCall = NoCall
    /\ lastVerify = NoVerify
    /\ typeBuilders = <<>>
    /\ types = <<>>
    /\ config = NoConfig
    /\ userResult = NoUserResult
    /\ target = NoTarget
    /\ tm = NoTargetMachine
    /\ jit = "none"
    /\ loaded = 0
    /\ steps = <<>>

NextInit ==
    \E t \in Threads :
        \/ run_enter(t)
        \/ call_once_complete(t)
        \/ call_once_begin(t)
        \/ call_once_wait(t)
        \/ call_once_wake(t)
        \/ call_once_poisoned(t)
        \/ LLVM_InitializeNativeTarget(t)
        \/ LLVM_InitializeNativeAsmParser(t)
        \/ run_rest(t)

SpecInit == Init /\ [][NextInit]_vars

\* The first call of run in a process, on one thread.  The frontend creates
\* modules and functions and moves modules between Module and
\* VerifiedModule; run reads nothing of the bodies it may build, which
\* SpecBuilder covers.
Next ==
    \/ run_enter_main
    \/ call_once_begin(Main)
    \/ LLVM_InitializeNativeTarget(Main)
    \/ LLVM_InitializeNativeAsmParser(Main)
    \/ context_create
    \/ \E name \in Names, room \in BOOLEAN : create_module(name, room)
    \/ \E m \in 1..MaxModules, name \in Names : add_function(m, name)
    \/ \E m \in 1..MaxModules : verify(m)
    \/ \E m \in 1..MaxModules : to_verified_module_unchecked(m)
    \/ \E m \in 1..MaxModules : into_module(m)
    \/ \E m \in 1..MaxModules : \E cf \in CallableMaps : user_returns_ok(m, cf)
    \/ \E error \in UserErrors : user_returns_err(error)
    \/ run_try
    \/ check_owner
    \/ get_target
    \/ target_has_jit
    \/ create_target_machine
    \/ drop_target_machine
    \/ create_jit_stack
    \/ add_eagerly_compiled_ir
    \/ unimplemented
    \/ drop_jit_stack
    \/ DropContext

Spec == Init /\ [][Next]_vars

\* The state LLVM7Compiler::run constructs the LLVM7Context in: a fresh
\* engine context and an empty module list.
InitContext ==
    /\ pc = [t \in Threads |-> IF t = Main THEN "user" ELSE "idle"]
    /\ runs = [t \in Threads |-> IF t = Main THEN 1 ELSE 0]
    /\ result = [t \in Threads |-> NoResult]
    /\ once = "COMPLETE"
    /\ initCalls = <<"NativeTarget", "NativeAsmParser">>
    /\ context = "live"
    /\ modules = <<>>
    /\ mods = <<>>
    /\ functions = <<>>
    /\ blocks = <<>>
    /\ builders = <<>>
    /\ disposeLog = <<>>
    /\ lastCall = NoCall
    /\ lastVerify = NoVerify
    /\ typeBuilders = <<>>
    /\ types = <<>>
    /\ config \in Configs
    /\ userResult = NoUserResult
    /\ target = NoTarget
    /\ tm = NoTargetMachine
    /\ jit = "none"
    /\ loaded = 0
    /\ steps = <<>>

Values == {"None", "Some"}

NextContext ==
    \/ \E name \in Names, room \in BOOLEAN : create_module(name, room)
    \/ \E m \in 1..MaxModules, name \in Names : add_function(m, name)
    \/ \E m \in 1..MaxModules : verify(m)
    \/ \E m \in 1..MaxModules : to_verified_module_unchecked(m)
    \/ \E m \in 1..MaxModules : into_module(m)
    \/ context_scope_ends
    \/ DropContext

SpecContext == InitContext /\ [][NextContext]_vars

\* A Context in which create_module and add_function have each been called
\* once: the function is where the basic blocks are appended.
InitBuilder ==
    /\ pc = [t \in Threads |-> IF t = Main THEN "user" ELSE "idle"]
    /\ runs = [t \in Threads |-> IF t = Main THEN 1 ELSE 0]
    /\ result = [t \in Threads |-> NoResult]
    /\ once = "COMPLETE"
    /\ initCalls = <<"NativeTarget", "NativeAsmParser">>
    /\ context = "live"
    /\ modules = <<1>>
    /\ mods = <<[ts |-> "Module", verdict |-> "none"]>>
    /\ functions = <<1>>
    /\ blocks = <<>>
    /\ builders = <<>>
    /\ disposeLog = <<>>
    /\ lastCall = NoCall
    /\ lastVerify = NoVerify
    /\ typeBuilders = <<>>
    /\ types = <<>>
    /\ config \in Configs
    /\ userResult = NoUserResult
    /\ target = NoTarget
    /\ tm = NoTargetMachine
    /\ jit = "none"
    /\ loaded = 0
    /\ steps = <<>>

NextBuilder ==
    \/ \E name \in Names : append_new_basic_block(1, name)
    \/ create_builder
    \/ \E d \in 1..MaxBuilders, b \in 1..MaxBlocks : attach(d, b)
    \/ \E d \in 1..MaxBuilders, value \in Values : build_return(d, value)

SpecBuilder == InitBuilder /\ [][NextBuilder]_vars

\* A holder of a Context that was created with any config makes type
\* builders and builds types.
InitTypes ==
    /\ pc = [t \in Threads |-> IF t = Main THEN "user" ELSE "idle"]
    /\ runs = [t \in Threads |-> IF t = Main THEN 1 ELSE 0]
    /\ result = [t \in Threads |-> NoResult]
    /\ once = "COMPLETE"
    /\ initCalls = <<"NativeTarget", "NativeAsmParser">>
    /\ context = "live"
    /\ modules = <<>>
    /\ mods = <<>>
    /\ functions = <<>>
    /\ blocks = <<>>
    /\ builders = <<>>
    /\ disposeLog = <<>>
    /\ lastCall = NoCall
    /\ lastVerify = NoVerify
    /\ typeBuilders = <<>>
    /\ types = <<>>
    /\ config \in AnyConfigs
    /\ userResult = NoUserResult
    /\ target = NoTarget
    /\ tm = NoTargetMachine
    /\ jit = "none"
    /\ loaded = 0
    /\ steps = <<"LLVMContextCreate">>

NextTypes ==
    \/ create_type_builder
    \/ \E b \in 1..MaxTypeBuilders, length \in VectorLengths :
          build_vector(b, length)
    \/ \E b \in 1..MaxTypeBuilders, count \in Counts : build_array(b, count)
    \/ \E b \in 1..MaxTypeBuilders, count \in Counts : build_struct(b, count)
    \/ \E b \in 1..MaxTypeBuilders, count \in Counts, return_type \in Values :
          build_function(b, count, return_type)
    \/ DropContext

SpecTypes == InitTypes /\ [][NextTypes]_vars

-----------------------------------------------------------------------------
\* Properties of native-target initialization (under SpecInit).

Occurrences(log, x) == Cardinality({i \in DOMAIN log : log[i] = x})

\* C9: under any interleaving of concurrent calls of run, each underlying
\* initialization call is executed at most once; a caller is past the
\* initialization only when that single execution has completed, both calls
\* made in order; and once it has completed no caller has observed a failure.
C9_InitializedExactlyOnce ==
    /\ Occurrences(initCalls, "NativeTarget") <= 1
    /\ Occurrences(initCalls, "NativeAsmParser") <= 1
    /\ \A t \in Threads :
          pc[t] = "initialized" =>
             /\ once = "COMPLETE"
             /\ initCalls = <<"NativeTarget", "NativeAsmParser">>
    /\ once = "COMPLETE" =>
          /\ initCalls = <<"NativeTarget", "NativeAsmParser">>
          /\ \A t \in Threads : result[t].kind # "panic"

\* Every thread's caller is past the initialization at once, one of them in
\* its second call of run, and the two calls were made once each.
C9_Witness ==
    /\ \A t \in Threads : pc[t] = "initialized"
    /\ \E t \in Threads : runs[t] = 2
    /\ initCalls = <<"NativeTarget", "NativeAsmParser">>

-----------------------------------------------------------------------------
\* Properties of the Context's module set (under SpecContext and Spec).

ModuleDisposals(m) ==
    {i \in DOMAIN disposeLog :
        disposeLog[i].obj = "Module" /\ disposeLog[i].id = m}

ContextDisposals == {i \in DOMAIN disposeLog : disposeLog[i].obj = "Context"}

\* C1: every module created through a Context is disposed at most once, each
\* module disposal comes before the disposal of the Context, the Context is
\* disposed at most once, and when the Context has been dropped every module
\* created through it has been disposed exactly once.
C1_ModulesDisposedOnceBeforeContext ==
    /\ \A m \in 1..Len(mods) : Cardinality(ModuleDisposals(m)) <= 1
    /\ Cardinality(ContextDisposals) <= 1
    /\ \A i \in DOMAIN disposeLog : disposeLog[i].obj = "Module" =>
          /\ disposeLog[i].id \in 1..Len(mods)
          /\ \A j \in ContextDisposals : i < j
    /\ context = "disposed" =>
          /\ Cardinality(ContextDisposals) = 1
          /\ \A m \in 1..Len(mods) : Cardinality(ModuleDisposals(m)) = 1

\* A Context through which MaxModules modules were created has been dropped.
C1_Witness ==
    /\ context = "disposed"
    /\ Len(mods) = MaxModules
    /\ Len(disposeLog) = MaxModules + 1

-----------------------------------------------------------------------------
\* Properties of verification (under SpecContext).

\* The step is a call of verify: it leaves a new record of itself.
VerifyStep == lastVerify' # lastVerify /\ lastVerify'.op = "verify"

\* C7: a call of verify on a module the engine reports broken returns Err
\* with a non-empty diagnostic message and the same module, still a Module; on
\* a module the engine reports valid it returns Ok with the same module, now
\* a VerifiedModule.  Either way the call does not panic and disposes
\* nothing: the Context's module set, every other module, the functions and
\* the engine's dispose calls are as before.
C7_VerifyReturnsModuleEitherWay ==
    [][VerifyStep =>
         LET v == lastVerify'
         IN  /\ v.module \in 1..Len(mods)
             /\ to_bool(v.rc) =>
                   /\ v.ret.kind = "Err"
                   /\ Len(v.ret.message) > 0
                   /\ v.ret.module = v.module
                   /\ mods'[v.module].ts = "Module"
             /\ ~to_bool(v.rc) =>
                   /\ v.ret = [kind |-> "Ok", module |-> v.module]
                   /\ mods'[v.module].ts = "VerifiedModule"
             /\ pc' = pc /\ result' = result
             /\ modules' = modules /\ disposeLog' = disposeLog
             /\ context' = context /\ functions' = functions
             /\ Len(mods') = Len(mods)
             /\ \A m \in 1..Len(mods) : m # v.module => mods'[m] = mods[m]
    ]_vars

\* verify has failed on a module of two that the Context owns, with a
\* diagnostic whose bytes were not valid UTF-8, and the module is still owned
\* and not disposed.
C7_Witness ==
    /\ lastVerify.op = "verify"
    /\ lastVerify.ret.kind = "Err"
    /\ lastVerify.ret.message = <<65533>>
    /\ modules = <<1, 2>>
    /\ lastVerify.module = 2
    /\ mods[2].ts = "Module"
    /\ disposeLog = <<>>

-----------------------------------------------------------------------------
\* Properties of the builder (under SpecBuilder).

\* The step is a call of attach or of build_return: it leaves a new record
\* of itself, with the builder as it was before the call.
BuilderStep(op) == lastCall' # lastCall /\ lastCall'.op = op

\* Block b is as before but for one return instruction linked at its end.
ReturnAppended(b) ==
    /\ blocks'[b].fn = blocks[b].fn
    /\ \E value \in Values :
          blocks'[b].instrs = Append(blocks[b].instrs, ReturnInstr(value))

\* C3: a builder emits instructions if and only if it is Attached.  A block
\* gains an instruction only as one return linked at its end, in a step where
\* some builder held as an AttachedBuilder was inserting into that block;
\* build_return on a builder held as an AttachedBuilder links its return into
\* the block it is attached to; build_return on a builder held as a
\* DetachedBuilder changes no block; and a builder is held as an
\* AttachedBuilder exactly when it has an insertion point.
C3_EmitsIffAttached ==
    /\ [](\A d \in 1..Len(builders) :
             builders[d].ts = "Attached" <=> builders[d].at # 0)
    /\ [][/\ Len(blocks') >= Len(blocks)
          /\ \A b \in 1..Len(blocks) :
                blocks'[b] # blocks[b] =>
                   /\ ReturnAppended(b)
                   /\ \E d \in 1..Len(builders) :
                         builders[d] = [at |-> b, ts |-> "Attached"]
          /\ BuilderStep("build_return") =>
                IF lastCall'.before.ts = "Attached"
                THEN blocks'[lastCall'.before.at].instrs =
                        Append(blocks[lastCall'.before.at].instrs,
                               ReturnInstr(lastCall'.arg))
                ELSE blocks' = blocks
         ]_vars

\* build_return was called on a builder held as a DetachedBuilder after the
\* same builder, attached, had emitted a return: the block holds that one
\* return and nothing more.
C3_Witness ==
    /\ lastCall.op = "build_return"
    /\ lastCall.before = [at |-> 0, ts |-> "Detached"]
    /\ \E b \in 1..Len(blocks) : Len(blocks[b].instrs) = 1
    /\ \A b \in 1..Len(blocks) : Len(blocks[b].instrs) <= 1

\* C4: calling build_return on a Detached builder, or attach on a builder
\* that is already Attached, is a fatal contract error: execution has
\* stopped with a panic, and the builder's insertion point is as it was
\* before the call.
C4_MisuseIsFatal ==
    (\/ lastCall.op = "build_return" /\ lastCall.before.ts = "Detached"
     \/ lastCall.op = "attach" /\ lastCall.before.ts = "Attached")
    => /\ result[Main].kind = "panic"
       /\ builders[lastCall.builder].at = lastCall.before.at

\* C5: attach(b) on a Detached builder makes it Attached with
\* current_basic_block() = b and changes no block; build_return(value) on an
\* Attached builder links exactly one return carrying value at the end of the
\* block it is attached to, changes no other block, clears the insertion
\* point and leaves the builder Detached; and a Detached builder can be
\* attached to any block.
C5_AttachThenReturnDetaches ==
    /\ [][/\ BuilderStep("attach") /\ lastCall'.before.ts = "Detached" =>
                /\ \A d \in 1..Len(builders) :
                      d = lastCall'.builder =>
                         /\ builders'[d].ts = "Attached"
                         /\ current_basic_block(d)' = lastCall'.arg
                /\ blocks' = blocks
          /\ BuilderStep("build_return") /\ lastCall'.before.ts = "Attached" =>
                LET d == lastCall'.builder
                    b == lastCall'.before.at
                IN  /\ b = builders[d].at
                    /\ blocks'[b].instrs =
                          Append(blocks[b].instrs, ReturnInstr(lastCall'.arg))
                    /\ \A c \in 1..Len(blocks) : c # b => blocks'[c] = blocks[c]
                    /\ Len(blocks') = Len(blocks)
                    /\ builders'[d] = [at |-> 0, ts |-> "Detached"]
         ]_vars
    /\ [](HoldsContext =>
             \A d \in 1..Len(builders) :
                builders[d].ts = "Detached" =>
                   \A b \in 1..Len(blocks) : ENABLED attach(d, b))

\* A builder was attached a second time, to a block that already ended in a
\* return, and build_return linked a second return at that block's end and
\* left the builder Detached.
C5_Witness ==
    /\ lastCall.op = "build_return"
    /\ lastCall.before.ts = "Attached"
    /\ Len(blocks[lastCall.before.at].instrs) = 2
    /\ builders[lastCall.builder] = [at |-> 0, ts |-> "Detached"]

-----------------------------------------------------------------------------
\* Properties of LLVM7Compiler::run (under Spec).

\* run has ended: it returned, it unwound with a panic, or the process
\* aborted.
RunEnded == pc[Main] \in {"done", "aborted"}

\* C2: on every exit path of run no engine resource is leaked or released
\* twice: no module is disposed more than once, no module is disposed after
\* the Context, and once run has returned or unwound with a Context created,
\* the Context and every module created through it have been disposed exactly
\* once.
C2_NoLeakNoDoubleRelease ==
    /\ \A m \in 1..Len(mods) : Cardinality(ModuleDisposals(m)) <= 1
    /\ \A i \in DOMAIN disposeLog : disposeLog[i].obj = "Module" =>
          \A j \in ContextDisposals : i < j
    /\ pc[Main] = "done" /\ context # "none" =>
          /\ Cardinality(ContextDisposals) = 1
          /\ \A m \in 1..Len(mods) : Cardinality(ModuleDisposals(m)) = 1

\* C6: the module handed to the JIT load step is a VerifiedModule: verify
\* last returned Ok for it, or it was forced through
\* to_verified_module_unchecked; it is not a module that is still a Module or
\* that the engine last reported broken.
C6_OnlyVerifiedModuleLoaded ==
    loaded # 0 =>
       /\ loaded \in 1..Len(mods)
       /\ loaded = userResult.module
       /\ mods[loaded].ts = "VerifiedModule"
       /\ mods[loaded].verdict \in {"valid", "unchecked"}

\* A module that verify returned Ok for was loaded, while the Context owned
\* another module that was never verified.
C6_Witness ==
    /\ loaded # 0
    /\ mods[loaded].verdict = "valid"
    /\ \E m \in 1..Len(mods) : m # loaded /\ mods[m].ts = "Module"

\* C8: a run whose frontend returned Ok, whose module was loaded into the
\* JIT stack and whose symbol resolver was not called ends by returning
\* Ok(compiled code).
C8_SuccessfulRunReturnsCompiledCode ==
    (/\ RunEnded
     /\ userResult.kind = "Ok"
     /\ loaded # 0
     /\ result[Main].kind \in {"panic", "abort"} =>
           result[Main].at # "symbol_resolver_fn")
    => result[Main].kind = "Ok"

\* C10: when the frontend returned Err(error), run returns Err(error) with
\* that same error; no step after user.run is executed: no ownership check,
\* no target lookup, no target machine, JIT stack or load; and the Context is
\* dropped, disposing every module created through it once and then the
\* Context.
C10_FrontendErrorPropagates ==
    (userResult.kind = "Err" /\ pc[Main] # "user_returned") =>
       /\ pc[Main] \in {"drop_context", "done"}
       /\ result[Main] = [kind |-> "Err", error |-> userResult.error]
       /\ steps = <<"LLVMContextCreate", "user.run">>
       /\ tm = NoTargetMachine /\ jit = "none" /\ loaded = 0
       /\ pc[Main] = "drop_context" => context = "live" /\ disposeLog = <<>>
       /\ pc[Main] = "done" =>
             /\ context = "disposed"
             /\ Cardinality(ContextDisposals) = 1
             /\ \A m \in 1..Len(mods) : Cardinality(ModuleDisposals(m)) = 1
             /\ \A i \in DOMAIN disposeLog : disposeLog[i].by = "Context"
             /\ disposeLog[Len(disposeLog)].obj = "Context"

\* The frontend created MaxModules modules and then failed with the second
\* of its errors; run has returned.
C10_Witness ==
    /\ pc[Main] = "done"
    /\ userResult.kind = "Err"
    /\ result[Main] = [kind |-> "Err", error |-> "E2"]
    /\ Len(mods) = MaxModules

-----------------------------------------------------------------------------
\* Properties of target resolution (under Spec).

\* run has looked up the target and stopped at the lookup or at the JIT
\* check.
TargetRefused ==
    /\ steps # <<>>
    /\ \/ steps[Len(steps)] = "LLVMGetTargetFromTriple" /\ target.target = "null"
       \/ steps[Len(steps)] = "LLVMTargetHasJIT" /\ pc[Main] # "target_machine"

\* C11: when the engine finds no target for the host's triple, run returns
\* Err(create_error(text)) with the engine's error text, converted lossily;
\* when the target found does not support JIT, run returns
\* Err(create_error(message)) with a message that names the triple.  Either
\* way run returns (it neither panics nor aborts), no target machine and no
\* JIT stack is created, no module is loaded, and the Context is dropped.
C11_TargetErrorsAreRecoverable ==
    TargetRefused =>
       /\ pc[Main] \in {"drop_context", "done"}
       /\ result[Main].kind = "Err"
       /\ steps[Len(steps)] = "LLVMGetTargetFromTriple" =>
             /\ Len(target.error) > 0
             /\ Len(result[Main].error.created) = Len(target.error)
             /\ \A i \in 1..Len(target.error) :
                   result[Main].error.created[i] =
                      IF target.error[i] < 128 THEN target.error[i] ELSE 65533
       /\ steps[Len(steps)] = "LLVMTargetHasJIT" =>
             /\ target.triple \in Triples
             /\ \E i \in DOMAIN result[Main].error.created :
                   result[Main].error.created[i] = target.triple
       /\ tm = NoTargetMachine /\ jit = "none" /\ loaded = 0
       /\ \A i \in DOMAIN disposeLog : disposeLog[i].by = "Context"
       /\ pc[Main] = "done" => context = "disposed"

\* run has returned the engine's error text for a failed lookup, a byte of
\* it not UTF-8.
C11_Witness ==
    /\ pc[Main] = "done"
    /\ target.target = "null"
    /\ target.error = <<255>>
    /\ result[Main] = create_error(<<65533>>)

\* run has returned the error that names the triple of a target without JIT
\* support.
C11_WitnessNoJIT ==
    /\ pc[Main] = "done"
    /\ target.target = "found"
    /\ result[Main] = create_error(format_no_jit("aarch64-unknown-linux-gnu"))

-----------------------------------------------------------------------------
\* Properties of the JIT load (under Spec).

\* The engine has asked symbol_resolver_fn for a symbol.
ResolverCalled == \E i \in DOMAIN steps : steps[i] = "symbol_resolver_fn"

\* C12: when the JIT stack asks the resolver callback for an external symbol
\* that cannot be resolved, the load fails and run returns an error value
\* with a message: it does not panic and the process does not abort.
C12_ResolverFailureIsRecoverable ==
    ResolverCalled =>
       /\ pc[Main] # "aborted"
       /\ result[Main].kind = "Err"

-----------------------------------------------------------------------------
\* Properties of the type builder (under SpecTypes).

\* The step is a call of operation op of a type builder.
TypeStep(op) == lastCall' # lastCall /\ lastCall'.op = op

\* The value fits 32 bits.
Fits32(v) == \A k \in DOMAIN v : k > U32Bytes => v[k] = 0

\* The length a vector is asked to have by a type builder with multiplier m,
\* in full.
EffectiveLength(length, m) ==
    IF length.kind = "Fixed" THEN as_usize(length.n) ELSE Product(length.n, m)

\* The step ends the call with a panic and the engine is asked for no type.
PanicsWithoutType ==
    /\ types' = types
    /\ result'[Main].kind = "panic"
    /\ pc'[Main] = "drop_context"

\* C13: build_vector with Fixed{length: n} asks the engine for a vector of
\* length n whatever the multiplier; with Variable{base_length: b} for a
\* vector of length b * m, m the type builder's multiplier; when that length
\* is 0 or does not fit 32 bits it panics and asks the engine for no type.
\* Every type builder carries the multiplier of the Context's config, and a
\* config made from a CompilerIndependentConfig has multiplier 1.
C13_VectorLengthScaledOrFatal ==
    /\ [](\A b \in 1..Len(typeBuilders) :
             typeBuilders[b] = config.variable_vector_length_multiplier)
    /\ [](\A mode \in OptimizationModes :
             LLVM7CompilerConfig_from(mode).variable_vector_length_multiplier
                = u32(1))
    /\ [][TypeStep("build_vector") =>
            LET call == lastCall'
                effective == EffectiveLength(call.arg,
                                             typeBuilders[call.builder])
            IN  /\ call.arg.kind = "Fixed" => effective = as_usize(call.arg.n)
                /\ IF IsZero(effective) \/ ~Fits32(effective)
                   THEN PanicsWithoutType
                   ELSE /\ types' = Append(types,
                                           [op |-> "LLVMVectorType",
                                            count |-> as_u32(effective)])
                        /\ as_usize(types'[Len(types')].count) = effective
                        /\ result' = result /\ pc' = pc
         ]_vars

\* The second type builder of a Context with multiplier 2 has built a vector
\* with Variable{base_length: 4}: the engine was asked for length 8.
C13_Witness ==
    /\ config.variable_vector_length_multiplier = u32(2)
    /\ Len(typeBuilders) = 2
    /\ lastCall.op = "build_vector"
    /\ lastCall.builder = 2
    /\ lastCall.arg = [kind |-> "Variable", n |-> u32(4)]
    /\ types = <<[op |-> "LLVMVectorType", count |-> u32(8)]>>

\* The operation of the engine that a counted type is made with.
CountedOps ==
    [build_array |-> "LLVMArrayType",
     build_struct |-> "LLVMStructTypeInContext",
     build_function |-> "LLVMFunctionType"]

\* C20: build_array, build_struct and build_function never truncate a
\* count: a count (array length, number of members, number of arguments)
\* that fits 32 bits reaches the engine as that same count, and for a count
\* that does not fit the call panics and asks the engine for no type.
C20_CountsNeverTruncated ==
    [][\A op \in DOMAIN CountedOps :
          TypeStep(op) =>
             LET count == lastCall'.arg
             IN  IF Fits32(count)
                 THEN /\ Len(types') = Len(types) + 1
                      /\ SubSeq(types', 1, Len(types)) = types
                      /\ types'[Len(types')].op = CountedOps[op]
                      /\ as_usize(types'[Len(types')].count) = count
                      /\ result' = result /\ pc' = pc
                 ELSE PanicsWithoutType
    ]_vars

\* build_struct was called with 2^32 - 1 members and the engine was asked for
\* a struct of 2^32 - 1 members.
C20_Witness ==
    /\ lastCall.op = "build_struct"
    /\ lastCall.arg = as_usize(U32_MAX)
    /\ types = <<[op |-> "LLVMStructTypeInContext", count |-> U32_MAX]>>

\* build_array was called with count 2^32 + 1 and has panicked, the engine
\* asked for no type.
C20_WitnessPanic ==
    /\ lastCall.op = "build_array"
    /\ lastCall.arg = <<1, 0, 0, 0, 1, 0, 0, 0>>
    /\ result[Main] = Panic("build_array")
    /\ types = <<>>

-----------------------------------------------------------------------------
\* Properties of function ownership (under Spec).

\* Every function of the frontend's callable_functions reports the module
\* the frontend returned as its parent.
AllCallablesOwned ==
    \A k \in DOMAIN userResult.callable_functions :
        functions[userResult.callable_functions[k]] = userResult.module

\* run is past its ownership check.
OwnersChecked == \E i \in DOMAIN steps : steps[i] = "check_owner"

\* C14: a call of add_function on module M that returns has made one new
\* function whose parent is M; no function's parent ever changes; and so
\* the Driver's ownership check passes when every callable function was
\* added to the module the frontend returned.
C14_FunctionParentIsItsModule ==
    /\ [][/\ Len(functions') >= Len(functions)
          /\ \A f \in 1..Len(functions) : functions'[f] = functions[f]
          /\ \A m \in 1..MaxModules, name \in Names :
                (add_function(m, name) /\ pc' = pc) =>
                   /\ Len(functions') = Len(functions) + 1
                   /\ functions'[Len(functions')] = m
         ]_vars
    /\ []((OwnersChecked /\ AllCallablesOwned) =>
             /\ result[Main] # Panic("assert_eq LLVMGetGlobalParent")
             /\ pc[Main] # "check_owner")

\* The ownership check has passed for a callable function that was added to
\* the second of two modules, the module the frontend returned.
C14_Witness ==
    /\ pc[Main] = "target"
    /\ userResult.module = 2
    /\ DOMAIN userResult.callable_functions # {}
    /\ AllCallablesOwned

\* C15: when a function of callable_functions reports a parent other than
\* the module the frontend returned, run panics at the ownership check:
\* no target lookup, no target machine, no JIT stack and no load take place,
\* and the Context is dropped.  A module is never loaded together with a
\* callable function it does not own.
C15_OwnershipMismatchIsFatal ==
    /\ (/\ userResult.kind = "Ok"
        /\ ~AllCallablesOwned
        /\ pc[Main] \notin {"user_returned", "check_owner"}) =>
          /\ result[Main] = Panic("assert_eq LLVMGetGlobalParent")
          /\ pc[Main] \in {"drop_context", "done"}
          /\ steps = <<"LLVMContextCreate", "user.run", "check_owner">>
          /\ target = NoTarget /\ tm = NoTargetMachine
          /\ jit = "none" /\ loaded = 0
    /\ loaded # 0 => AllCallablesOwned

\* run has unwound from the ownership check: the frontend returned the first
\* module with a callable function that belongs to the second.
C15_Witness ==
    /\ pc[Main] = "done"
    /\ result[Main] = Panic("assert_eq LLVMGetGlobalParent")
    /\ userResult.module = 1
    /\ \E k \in DOMAIN userResult.callable_functions :
          functions[userResult.callable_functions[k]] = 2
    /\ context = "disposed"

-----------------------------------------------------------------------------
\* Properties of create_module (under SpecContext).

\* The Context's module list holds each module the engine allocated for it
\* exactly once and nothing else.
SetExact ==
    /\ Len(modules) = Len(mods)
    /\ \A m \in 1..Len(mods) :
          Cardinality({i \in DOMAIN modules : modules[i] = m}) = 1

HasTerminator(name) == \E i \in DOMAIN name : name[i] = 0

\* C16, as stated: after any sequence of create_module calls, failed ones
\* included, the module list of a live Context is exact: a call that fails,
\* on its name or on reserving room, leaves the registered modules in it.
C16_SetExactAfterAnyCall == context = "live" => SetExact

\* C16, amended: the module list of a live Context is exact after every
\* create_module call that returns or panics.  A call with a terminator in
\* its name allocates no module, leaves the list as it was and panics, and
\* the Context dropped by the unwinding disposes every registered module
\* once.  A call that returns has allocated one module and registered it at
\* the end of the list.  A call that fails to reserve room allocates no
\* module and aborts the process with the list taken out of the Context:
\* the list is empty and nothing is disposed.
C16_SetExactUnlessAborted ==
    /\ []((context = "live" /\ pc[Main] # "aborted") => SetExact)
    /\ [](pc[Main] = "aborted" =>
             /\ result[Main] = Abort("reserve")
             /\ modules = <<>>
             /\ context = "live" /\ disposeLog = <<>>)
    /\ []((context = "disposed" /\ result[Main] = Panic("create_module")) =>
             \A m \in 1..Len(mods) : Cardinality(ModuleDisposals(m)) = 1)
    /\ [][\A name \in Names, room \in BOOLEAN :
             create_module(name, room) =>
                IF HasTerminator(name)
                THEN /\ mods' = mods /\ modules' = modules
                     /\ result'[Main] = Panic("create_module")
                ELSE IF ~room
                THEN mods' = mods /\ pc'[Main] = "aborted"
                ELSE /\ Len(mods') = Len(mods) + 1
                     /\ modules' = Append(modules, Len(mods'))
                     /\ pc' = pc
         ]_vars

\* A create_module call with a terminator in its name has panicked after a
\* module was registered, and the Context dropped by the unwinding has
\* disposed that module.
C16_Witness ==
    /\ result[Main] = Panic("create_module")
    /\ context = "disposed"
    /\ Len(mods) >= 1
    /\ \A m \in 1..Len(mods) : Cardinality(ModuleDisposals(m)) = 1

\* A create_module call has failed to reserve room after a module was
\* registered: the process has aborted with the Context's list empty.
C16_WitnessAbort ==
    /\ pc[Main] = "aborted"
    /\ Len(mods) >= 1
    /\ modules = <<>>


\* ---------------------------------------------------------------------------
\* The target machine.

\* Positions of the log at which the target machine itself is released.
MachineDisposals ==
    {i \in 1..Len(disposeLog) : /\ disposeLog[i].obj = "TargetMachine"
                                /\ disposeLog[i].id = "machine"}

\* Positions of the log at which the wrapper's drop calls
\* LLVMDisposeTargetMachine, on whatever handle it then holds.
WrapperDrops ==
    {i \in 1..Len(disposeLog) : disposeLog[i].by = "LLVM7TargetMachine"}

\* C17: a target machine is never released twice and, on every path on
\* which run returns or unwinds (a path that ends by aborting the process
\* releases nothing any more), a created machine is released exactly once.
\* Once the JIT stack exists the machine is the stack's: the wrapper's drop
\* after take acts on a null handle, and the release is the stack's.  Where
\* no JIT stack was created the one call of the wrapper's drop is the only
\* disposal there is, and as long as a live machine has no stack it is the
\* wrapper that holds it.
C17_TargetMachineReleasedOnce ==
    /\ Cardinality(MachineDisposals) <= 1
    /\ Cardinality(WrapperDrops) <= 1
    /\ (pc[Main] = "done" /\ tm.machine # "none")
          => /\ tm.machine = "disposed"
             /\ Cardinality(MachineDisposals) = 1
    /\ jit # "none"
          => /\ tm.wrapper = "none"
             /\ \A i \in WrapperDrops : disposeLog[i].id = "null"
             /\ \A i \in MachineDisposals : disposeLog[i].by = "JIT"
             /\ (tm.machine = "live") = (jit = "live")
    /\ jit = "none"
          => /\ \A i \in 1..Len(disposeLog) :
                   disposeLog[i].obj = "TargetMachine" => i \in WrapperDrops
             /\ tm.machine = "live" => tm.wrapper = "machine"
             /\ pc[Main] = "done" => tm.wrapper = "none"
    /\ tm.machine = "none" => MachineDisposals = {}

\* A run that ended by unwinding after the JIT stack was created: the wrapper
\* dropped a null handle and the stack released the machine.
C17_Witness ==
    /\ pc[Main] = "done"
    /\ jit = "disposed"
    /\ tm.machine = "disposed"
    /\ \E i \in WrapperDrops : disposeLog[i].id = "null"
    /\ \E i \in MachineDisposals : disposeLog[i].by = "JIT"

\* A run in which no machine could be created: the wrapper's drop is the one
\* disposal, and no JIT stack exists.
C17_WitnessNoStack ==
    /\ pc[Main] = "done"
    /\ jit = "none"
    /\ Cardinality(WrapperDrops) = 1
    /\ result[Main] = Panic("assert target_machine")


\* ---------------------------------------------------------------------------
\* Failure of native-target initialization (under SpecInit).

\* The callers whose call of run ended in a panic of the initialization path.
FailedCallers == {t \in Threads : pc[t] = "done" /\ result[t].kind = "panic"}

\* The step in which the closure of call_once panics on thread t.
InitFails(t) ==
    /\ pc[t] \in {"init_target", "init_asm"}
    /\ pc'[t] = "done"

\* C18: a failed native-target initialization is fatal for the call that
\* made it and permanent.  The call whose closure fails ends in a panic and
\* leaves the guard poisoned; the guard never leaves that state and no
\* initialization call is made afterwards (none is ever made twice); while
\* it is poisoned no caller is inside the closure or past the
\* initialization, where run creates its Context, and every call of run
\* that has ended, whether it came later or was waiting, ended in a panic.
C18_InitFailureIsFatalAndPermanent ==
    /\ [](once = "POISONED" =>
             /\ \A t \in Threads :
                   /\ pc[t] \notin {"init_target", "init_asm", "initialized"}
                   /\ pc[t] = "done" => t \in FailedCallers
             /\ initCalls # <<>>
             /\ context = "none")
    /\ [](\A t \in Threads : result[t].kind = "panic" => once = "POISONED")
    /\ [](/\ Occurrences(initCalls, "NativeTarget") <= 1
          /\ Occurrences(initCalls, "NativeAsmParser") <= 1)
    /\ [][/\ \A t \in Threads : InitFails(t) =>
                /\ once' = "POISONED"
                /\ result'[t].kind = "panic"
          /\ once = "POISONED" => /\ once' = "POISONED"
                                  /\ initCalls' = initCalls]_vars

\* The second initialization call failed on one thread; every other thread's
\* call failed on the poisoned guard, and one thread called run again and
\* failed again.
C18_Witness ==
    /\ once = "POISONED"
    /\ initCalls = <<"NativeTarget", "NativeAsmParser">>
    /\ \A t \in Threads : pc[t] = "done"
    /\ \E t \in Threads : result[t] = Panic("call_once") /\ runs[t] = 2
    /\ \E t \in Threads : runs[t] = 1


\* ---------------------------------------------------------------------------
\* The order of the steps of one run (under Spec).

\* The steps of run after the initialization, in the order of its statements.
RunOrder ==
    <<"LLVMContextCreate", "user.run", "check_owner",
      "LLVMGetTargetFromTriple", "LLVMTargetHasJIT",
      "LLVMCreateTargetMachine", "LLVMOrcCreateInstance",
      "LLVMOrcAddEagerlyCompiledIR">>

IsRunStep(s) == \E i \in 1..Len(RunOrder) : RunOrder[i] = s

\* The steps run has made, without the calls the engine makes back into it.
StepsMade == SelectSeq(steps, IsRunStep)

IsPrefix(s, t) == Len(s) <= Len(t) /\ SubSeq(t, 1, Len(s)) = s

\* C19: within one call of run the steps made are an initial part of the
\* list: initialization completed (both calls, in order) before the Context
\* is created, then the frontend, the ownership check, target resolution,
\* the JIT-support check, target-machine creation, JIT stack creation and
\* the load, each at most once.  A step is made only while no earlier step
\* has failed: the frontend returned Ok before the ownership check, the
\* owners matched before target resolution, a target was found before the
\* JIT-support check, a machine was created before the JIT stack and the
\* stack before the load.  A run whose Context was created and that ended
\* had its frontend return once or panic inside it.  The machine is created
\* at level None for NoOptimizations and at level Default for Normal.
C19_StepsInOrderAtMostOnce ==
    /\ [](/\ IsPrefix(StepsMade, RunOrder)
          /\ steps # <<>> =>
                /\ once = "COMPLETE"
                /\ initCalls = <<"NativeTarget", "NativeAsmParser">>
          /\ (context # "none") = (Len(StepsMade) >= 1)
          /\ Len(StepsMade) >= 3 => userResult.kind = "Ok"
          /\ Len(StepsMade) >= 4 => OwnersMatch(userResult)
          /\ Len(StepsMade) >= 5 => target.target = "found"
          /\ (tm.wrapper # "none" \/ tm.machine # "none")
                => Len(StepsMade) >= 6
          /\ Len(StepsMade) >= 7 => tm.machine # "none" /\ jit # "none"
          /\ jit # "none" => Len(StepsMade) >= 7
          /\ (loaded # 0) = (Len(StepsMade) >= 8)
          /\ (pc[Main] = "done" /\ context # "none")
                => \/ Occurrences(steps, "user.run") = 1
                   \/ /\ StepsMade = <<"LLVMContextCreate">>
                      /\ result[Main].kind = "panic")
    /\ [](tm.level # "none" =>
             /\ config.optimization_mode = "NoOptimizations"
                   => tm.level = "LLVMCodeGenLevelNone"
             /\ config.optimization_mode = "Normal"
                   => tm.level = "LLVMCodeGenLevelDefault")
    /\ [][steps' # steps => result[Main] = NoResult]_vars

\* Every step was made, the machine created without optimizations.
C19_Witness ==
    /\ StepsMade = RunOrder
    /\ config.optimization_mode = "NoOptimizations"
    /\ tm.level = "LLVMCodeGenLevelNone"

=============================================================================
